---- MODULE Spec2Model ----
(***************************************************************************)
(* Model of pincracker.py: the bounded concurrent attempt scheduler of      *)
(* main(), the retry loop of make_request() and the response                *)
(* classification of worker().                                              *)
(*                                                                         *)
(* Strings are sequences of one-character strings, so that lower(),         *)
(* strip(), slicing, len() and the `in` substring test are computed.        *)
(* JSON / Python values are tagged records:                                 *)
(*   [t |-> "none"]            None / JSON null                             *)
(*   [t |-> "str",  s |-> cs]  a str                                        *)
(*   [t |-> "int",  n |-> i]   an int                                       *)
(*   [t |-> "bool", b |-> x]   a bool                                       *)
(*   [t |-> "dict", d |-> f]   a dict, f a function from key to value       *)
(***************************************************************************)
EXTENDS Integers, Sequences, FiniteSets, TLC

\* ------------------------------------------------------------------ bounds
\* Largest number of candidates in the source (the program has 10000).
MaxPins == 3
\* Largest --threads value explored.
MaxThreads == 2
\* Largest --retries value explored in whole runs.
MaxRunRetries == 1
\* Largest --retries value explored for one worker() call alone.
MaxRetries == 2
\* Largest number of fragments concatenated into a free-text body.
MaxParts == 2

\* ------------------------------------------------------- program constants
\* backoff = 0.5 (seconds), kept in milliseconds
InitialBackoffMs == 500
\* display_flag longer than this is truncated
MaxDisplayLen == 300

\* ---------------------------------------------------------------- strings
NoneVal == [t |-> "none"]
StrVal(cs) == [t |-> "str", s |-> cs]
IntVal(i) == [t |-> "int", n |-> i]
BoolVal(x) == [t |-> "bool", b |-> x]
DictVal(f) == [t |-> "dict", d |-> f]

DigitChars == <<"0", "1", "2", "3", "4", "5", "6", "7", "8", "9">>

\* f"{i:04d}" for 0 <= i < 10000
Fmt04(i) ==
    << DigitChars[((i \div 1000) % 10) + 1],
       DigitChars[((i \div 100) % 10) + 1],
       DigitChars[((i \div 10) % 10) + 1],
       DigitChars[(i % 10) + 1] >>

\* pins = [f"{i:04d}" for i in range(n)]
MakePins(n) == [i \in 1..n |-> Fmt04(i - 1)]

UpperToLower ==
    ("F" :> "f") @@ ("L" :> "l") @@ ("A" :> "a") @@ ("G" :> "g")
    @@ ("C" :> "c") @@ ("T" :> "t")

LowerChar(c) == IF c \in DOMAIN UpperToLower THEN UpperToLower[c] ELSE c

\* str.lower()
Lower(s) == [i \in 1..Len(s) |-> LowerChar(s[i])]

IsSpace(c) == c \in {" ", "\t", "\n"}

RECURSIVE LStrip(_)
LStrip(s) == IF s # <<>> /\ IsSpace(Head(s)) THEN LStrip(Tail(s)) ELSE s

RECURSIVE RStrip(_)
RStrip(s) ==
    IF s # <<>> /\ IsSpace(s[Len(s)]) THEN RStrip(SubSeq(s, 1, Len(s) - 1)) ELSE s

\* str.strip()
Strip(s) == RStrip(LStrip(s))

\* sub in s
Contains(s, sub) ==
    \E i \in 1..(Len(s) - Len(sub) + 1) : SubSeq(s, i, i + Len(sub) - 1) = sub

RECURSIVE IntStr(_)
\* str(n) for an int n >= 0
IntStr(n) ==
    IF n < 10 THEN <<DigitChars[n + 1]>>
    ELSE IntStr(n \div 10) \o <<DigitChars[(n % 10) + 1]>>

\* str(v) for the values a flag key can hold here
PyStr(v) ==
    CASE v.t = "str" -> v.s
      [] v.t = "int" -> IF v.n < 0 THEN <<"-">> \o IntStr(-v.n) ELSE IntStr(v.n)
      [] v.t = "bool" -> IF v.b THEN <<"T", "r", "u", "e">> ELSE <<"F", "a", "l", "s", "e">>
      [] v.t = "none" -> <<"N", "o", "n", "e">>

\* bool(v): the truth value Python gives v in `if v:`
Truthy(v) ==
    CASE v.t = "none" -> FALSE
      [] v.t = "str" -> v.s # <<>>
      [] v.t = "int" -> v.n # 0
      [] v.t = "bool" -> v.b
      [] v.t = "dict" -> DOMAIN v.d # {}

\* ------------------------------------------------------------ the endpoint
\* A reply to one send: a network exception or an HTTP response whose
\* content either decodes as JSON (fmt "json") or does not (fmt "raw").
TimeoutReply == [kind |-> "Timeout"]
ConnectionErrorReply == [kind |-> "ConnectionError"]
OtherExceptionReply == [kind |-> "OtherException"]
JsonReply(st, v) == [kind |-> "http", status |-> st, fmt |-> "json", val |-> v]
RawReply(st, cs) == [kind |-> "http", status |-> st, fmt |-> "raw", text |-> cs]

\* --flag-key (default "flag")
FlagKey == "flag"

\* the tuple worker() returns
WorkerResult(pin_str, flag_val, status, body) ==
    [pin_str |-> pin_str, flag_val |-> flag_val, status |-> status, body |-> body]

\* faulty variant: `and` binding the whole disjunction
TextLooksLikeFlagWrongPrecedence(low) ==
    /\ \/ Contains(low, <<"f", "l", "a", "g">>)
       \/ Contains(low, <<"c", "t", "f", "{">>)
       \/ Contains(low, <<"{">>)
    /\ Contains(low, <<"}">>)

\* "flag" in low or "ctf{" in low or "{" in low and "}" in low
TextLooksLikeFlag(low) ==
    \/ Contains(low, <<"f", "l", "a", "g">>)
    \/ Contains(low, <<"c", "t", "f", "{">>)
    \/ (Contains(low, <<"{">>) /\ Contains(low, <<"}">>))

\* worker(), after make_request returned (status, data)
Classify(pin_str, status, data, flag_key) ==
    IF data.t = "dict" /\ flag_key \in DOMAIN data.d
    THEN WorkerResult(pin_str, data.d[flag_key], status, data)
    ELSE IF data.t = "str" /\ Strip(data.s) # <<>> /\ TextLooksLikeFlag(Lower(data.s))
    THEN WorkerResult(pin_str, StrVal(Strip(data.s)), status, data)
    ELSE WorkerResult(pin_str, NoneVal, status, data)

\* except (Timeout, ConnectionError) / status 429 / 500 <= status < 600
Transient(reply) ==
    \/ reply.kind \in {"Timeout", "ConnectionError"}
    \/ /\ reply.kind = "http"
       /\ (reply.status = 429 \/ (500 <= reply.status /\ reply.status < 600))

\* faulty variant: the backoff is not doubled
NextBackoffConstant(b) == b

\* backoff *= 2
NextBackoff(b) == b * 2

\* r.json(), or r.text when the content is not JSON
ParseBody(reply) == IF reply.fmt = "json" THEN reply.val ELSE StrVal(reply.text)

\* --------------------------------------------------------------- the state
VARIABLES
    mode,            \* "run": main() drives the pool; "unit": one worker() call
                     \* alone, against a recording mock session and sleep
    args,            \* the parsed options: threads, retries, stop_on_found
    pins,            \* the candidate list
    pc,              \* where main() is
    idx,             \* next unissued index into pins
    futures,         \* the list of (future, pin) the scheduler tracks
    done,            \* the set wait() returned
    pos,             \* position of the for loop in futures (1-based)
    new_futures,     \* the list being rebuilt by the for loop
    found,           \* the success list: tuples <<pin, display_flag>>
    last_shown_pin,  \* pin of the last "Attempted PIN" line
    work,            \* the attempts held by the pool, by future
    consumed,        \* per future, how many times the scheduler took its result
    last,            \* the future the scheduler consumed last: what it got, what it printed
    issued,          \* the pins handed to ex.submit, in order
    printed,         \* the run-level lines printed so far
    exit_status,     \* status the process exits with, "none" while running
    mock,            \* unit mode: what the mock session and sleep recorded
    found_lock,      \* found_lock = Lock(): "free", or "held" inside a `with` block
    console,         \* the terminal: what the current line holds, and what went wrong
    cursor_lock,     \* state of found_lock when idx was advanced last ("none": never)
    success_order    \* the attempts that completed with a flag the scheduler will
                     \* record and are not consumed yet, in the order they completed

vars ==
    << mode, args, pins, pc, idx, futures, done, pos, new_futures, found,
       last_shown_pin, work, consumed, last, issued, printed, exit_status, mock,
       found_lock, console, cursor_lock, success_order >>

total == Len(pins)

\* ------------------------------------------------------------ make_request
\* attempt = 0; backoff = 0.5 -- the locals of one worker() call
NewAttempt(pin_str) ==
    [ pin_str |-> pin_str,
      state |-> "running",
      attempt |-> 0,
      backoff |-> InitialBackoffMs ]

\* a completed future: the tuple worker() returned, or the exception it raised
Completed(pin_str, outcome) ==
    [ pin_str |-> pin_str, state |-> "finished", outcome |-> outcome ]

\* faulty variant: the loop bound off by one
MayRetryStrict(attempt, retries) == attempt < retries

\* faulty variant: one pass more than the retries allow
MayRetryOnceMore(attempt, retries) == attempt <= retries + 1

\* while attempt <= retries
MayRetry(attempt, retries) == attempt <= retries

\* one pass of the while loop of make_request, the endpoint answering reply;
\* on a terminal response the rest of worker() runs and the future completes
SendOnce(w, reply, flag_key) ==
    IF reply.kind = "OtherException"
    THEN Completed(w.pin_str, [kind |-> "exception"])
    ELSE IF Transient(reply)
    THEN [w EXCEPT !.attempt = @ + 1, !.backoff = NextBackoff(@)]
    ELSE Completed(w.pin_str,
                   [kind |-> "result",
                    val |-> Classify(w.pin_str, IntVal(reply.status),
                                     ParseBody(reply), flag_key)])

\* time.sleep(backoff) of that pass: the delays slept, in ms
SleepsOnce(w, reply) ==
    IF reply.kind # "OtherException" /\ Transient(reply) THEN <<w.backoff>> ELSE <<>>

\* the loop ended: return None, None -- and the rest of worker()
GiveUp(w, flag_key) ==
    Completed(w.pin_str,
              [kind |-> "result",
               val |-> Classify(w.pin_str, NoneVal, NoneVal, flag_key)])

\* ------------------------------------------------------ the endpoint's replies
\* fragments of free-text bodies
TextParts ==
    { <<"f", "l", "a">>, <<"g">>, <<"G">>, <<"c", "t">>, <<"f", "{">>, <<"F", "{">>,
      <<"{">>, <<"}">>, <<" ">>, <<" ", "{">>, <<"x">> }

RECURSIVE Texts(_)
\* the texts made of at most n fragments
Texts(n) ==
    IF n = 0 THEN { <<>> }
    ELSE Texts(n - 1) \cup { a \o b : a \in Texts(n - 1), b \in TextParts }

\* values the endpoint may put at a key of a JSON object
FlagValues ==
    { StrVal(<<"X">>), StrVal(<<>>), IntVal(0), IntVal(42), BoolVal(FALSE),
      BoolVal(TRUE), NoneVal }

\* what one worker() call alone is tried against
UnitReplies ==
    {TimeoutReply, ConnectionErrorReply, OtherExceptionReply}
    \cup { JsonReply(st, DictVal(FlagKey :> v)) :
             st \in {200, 429, 499, 500, 599, 600}, v \in FlagValues }
    \cup { JsonReply(200, v) :
             v \in { DictVal("other" :> StrVal(<<"f", "l", "a", "g">>)),
                     DictVal(<< >>), IntVal(7), StrVal(<<"c", "t", "f", "{">>) } }
    \cup { RawReply(st, cs) : st \in {200, 499, 600}, cs \in Texts(MaxParts) }

\* a flag one character longer than the display takes
LongFlag == [i \in 1..(MaxDisplayLen + 1) |-> "A"]

\* the flag the endpoint of a run holds for a pin: a long one for the first
\* candidate, a short one for the others
RunFlag(pin_str) == IF pin_str = Fmt04(0) THEN LongFlag ELSE <<"X">>

\* what a whole run is tried against, for the request of one pin
RunReplies(pin_str) ==
    { TimeoutReply, OtherExceptionReply,
      JsonReply(429, DictVal(FlagKey :> StrVal(<<"X">>))),
      JsonReply(500, DictVal(FlagKey :> StrVal(<<"X">>))),
      JsonReply(200, DictVal(FlagKey :> StrVal(RunFlag(pin_str)))),
      JsonReply(200, DictVal(FlagKey :> StrVal(<<>>))),
      RawReply(404, <<"n", "o">>) }

Replies(pin_str) == IF mode = "run" THEN RunReplies(pin_str) ELSE UnitReplies

\* the retryable replies: timeout, connection failure, 429, status in [500,600)
RetryableReply(reply) ==
    \/ reply.kind \in {"Timeout", "ConnectionError"}
    \/ reply.kind = "http" /\ reply.status \in ({429} \cup (500..599))

\* ----------------------------------------------------------------- workers
Running(f) == f \in DOMAIN work /\ work[f].state = "running"
Finished(f) == f \in DOMAIN work /\ work[f].state = "finished"
AllWorkersIdle == \A f \in DOMAIN work : work[f].state = "finished"

\* a pool thread runs one pass of make_request's loop for future f
WorkerSend(f) ==
    /\ Running(f)
    /\ MayRetry(work[f].attempt, args.retries)
    /\ \E reply \in Replies(work[f].pin_str) :
         /\ work' = [work EXCEPT ![f] = SendOnce(work[f], reply, FlagKey)]
         /\ mock' = IF mode = "unit"
                    THEN [ sends |-> mock.sends + 1,
                           slept |-> mock.slept \o SleepsOnce(work[f], reply),
                           transients |-> mock.transients
                                          + (IF RetryableReply(reply) THEN 1 ELSE 0),
                           reply |-> reply ]
                    ELSE mock
         /\ success_order' =
                LET w == SendOnce(work[f], reply, FlagKey)
                IN  IF w.state = "finished" /\ w.outcome.kind = "result"
                       /\ Truthy(w.outcome.val.flag_val)
                    THEN Append(success_order, f)
                    ELSE success_order
    /\ UNCHANGED << mode, args, pins, pc, idx, futures, done, pos, new_futures,
                    found, last_shown_pin, consumed, last, issued, printed, exit_status,
                    found_lock, console, cursor_lock >>

\* faulty variant: the pool thread takes the next candidate itself
WorkerGiveUpPullsNext(f) ==
    /\ Running(f)
    /\ ~MayRetry(work[f].attempt, args.retries)
    /\ work' = [work EXCEPT ![f] = GiveUp(work[f], FlagKey)]
    /\ idx' = IF idx < Len(pins) THEN idx + 1 ELSE idx
    /\ UNCHANGED << mode, args, pins, pc, futures, done, pos, new_futures,
                    found, last_shown_pin, consumed, last, issued, printed, exit_status, mock,
                    found_lock, console, cursor_lock, success_order >>

\* a pool thread leaves make_request's loop with the retries used up
WorkerGiveUp(f) ==
    /\ Running(f)
    /\ ~MayRetry(work[f].attempt, args.retries)
    /\ work' = [work EXCEPT ![f] = GiveUp(work[f], FlagKey)]
    /\ UNCHANGED << mode, args, pins, pc, idx, futures, done, pos, new_futures,
                    found, last_shown_pin, consumed, last, issued, printed, exit_status, mock,
                    found_lock, console, cursor_lock, success_order >>

\* --------------------------------------------------------------- scheduler
TruncatedMarker ==
    << " ", ".", ".", ".", " ", "(", "t", "r", "u", "n", "c", "a", "t", "e", "d", ")" >>

\* faulty variant: the payload is never cut
DisplayFlagFull(flag_val) == IF flag_val.t = "str" THEN flag_val.s ELSE PyStr(flag_val)

\* display_flag, from flag_val
DisplayFlag(flag_val) ==
    LET str == IF flag_val.t = "str" THEN flag_val.s ELSE PyStr(flag_val)
    IN  IF Len(str) > MaxDisplayLen
        THEN SubSeq(str, 1, MaxDisplayLen) \o TruncatedMarker
        ELSE str

\* what the scheduler got from the future it consumed and the lines it printed
Consumed(fut, pin, got, lines) == [fut |-> fut, pin |-> pin, got |-> got, lines |-> lines]

NoLast == Consumed(-1, <<>>, [kind |-> "pending"], <<>>)

NoMock == [sends |-> 0, slept |-> <<>>, transients |-> 0, reply |-> [kind |-> "none"]]

\* a sequence without the element x
Without(seq, x) == SelectSeq(seq, LAMBDA y : y # x)

\* the (future, pin) tuples of the futures list; a future is named by the
\* index its pin had when ex.submit created it
Tracked(fut, pin) == [fut |-> fut, pin |-> pin]

\* ------------------------------------------------------------- the console
\* what print() sends to the terminal, piece by piece
NewLine == [c |-> "nl"]
CarriageReturn == [c |-> "cr"]
Permanent(kind) == [c |-> "text", kind |-> kind, ephemeral |-> FALSE]
Ephemeral(kind) == [c |-> "text", kind |-> kind, ephemeral |-> TRUE]

\* print(text)
PrintLine(kind) == << Permanent(kind), NewLine >>

\* print("\n" + text)
PrintLineAfterBreak(kind) == << NewLine, Permanent(kind), NewLine >>

\* print()
PrintBreak == << NewLine >>

\* print(text, end="\r", flush=True)
PrintEphemeral(kind) == << Ephemeral(kind), CarriageReturn >>

\* print(f"\n[!] {pin} -> exception: {e}")
ErrorReport == PrintLineAfterBreak("error")

\* faulty variant: the report of a success starts on the current line
SuccessReportNoBreak == PrintLine("success") \o PrintLine("flag")

\* print(); print(f"Correct PIN found: {pin_str}"); print(f"Flag: {display_flag}")
SuccessReport == PrintBreak \o PrintLine("success") \o PrintLine("flag")

\* print("\nStopping because --stop-on-found was set.")
StopNotice == PrintLineAfterBreak("stopping")

\* print(f"Attempted PIN: {pin_str}", end="\r", flush=True)
ProgressReport == PrintEphemeral("attempted")

\* with found_lock: print()  -- clears the line of the last "Attempted"
SummaryBreak == PrintBreak

RECURSIVE EntryLines(_)
\* for p, f in found: print(f" - {p} -> {f}")
EntryLines(n) == IF n = 0 THEN <<>> ELSE PrintLine("entry") \o EntryLines(n - 1)

\* "Finished. Found n result(s):" and the entries, or "Finished. No flags found."
Summary(n) == PrintLine("finished") \o EntryLines(n)

\* print("\nInterrupted by user. Exiting.")
InterruptNotice == PrintLineAfterBreak("interrupted")

\* the terminal before the first report: the cursor on an empty line
EmptyConsole == [line |-> "empty", clobbered |-> {}, unlocked |-> {}]

\* the state of found_lock inside a `with found_lock:` block
Acquired(lock) == IF lock = "free" THEN "held" ELSE "blocked"

\* one piece written to the terminal while found_lock is in state lock: a
\* line break leaves an empty line, "\r" moves the cursor and keeps the line,
\* a text lands on the current line
Emit(con, chunk, lock) ==
    IF chunk.c = "nl" THEN [con EXCEPT !.line = "empty"]
    ELSE IF chunk.c = "cr" THEN con
    ELSE [line      |-> IF chunk.ephemeral THEN "ephemeral" ELSE "permanent",
          clobbered |-> IF ~chunk.ephemeral /\ con.line = "ephemeral"
                        THEN con.clobbered \cup {chunk.kind} ELSE con.clobbered,
          unlocked  |-> IF lock = "held"
                        THEN con.unlocked ELSE con.unlocked \cup {chunk.kind}]

RECURSIVE Write(_, _, _)
\* sys.stdout.write of the pieces, in order
Write(con, chunks, lock) ==
    IF chunks = <<>> THEN con
    ELSE Write(Emit(con, Head(chunks), lock), Tail(chunks), lock)

\* faulty variant: the candidate before the cursor is issued again
NextPinStale == pins[IF idx = 0 THEN 1 ELSE idx]

\* pin = pins[idx]: the next candidate in source order (pins is 1-based here)
NextPin == pins[idx + 1]

\* ex.submit(worker, pins[idx], ...)
Submitted == work @@ (idx :> NewAttempt(NextPin))

\* the futures the scheduler has not consumed yet: to be looked at by the
\* for loop, or already carried over / issued into new_futures
Pending ==
    IF pc = "loop"
    THEN { futures[i].fut : i \in pos..Len(futures) }
         \cup { new_futures[i].fut : i \in 1..Len(new_futures) }
    ELSE { futures[i].fut : i \in 1..Len(futures) }

\* faulty variant: the batch bound off by one
InitialBatchOpenOffByOne == idx < total /\ Len(futures) <= args.threads

\* while idx < total and len(futures) < args.threads
InitialBatchOpen == idx < total /\ Len(futures) < args.threads

\* if flag_val:
IsFound(flag_val) == Truthy(flag_val)

\* faulty variant: --stop-on-found is ignored
EarlyStopIgnored(flag_val, stop_on_found) == FALSE

\* faulty variant: the early stop is taken on any outcome
EarlyStopOnAny(flag_val, stop_on_found) == stop_on_found

\* if flag_val: ... if args.stop_on_found: ... return
EarlyStop(flag_val, stop_on_found) == IsFound(flag_val) /\ stop_on_found

\* faulty variant: the last candidate is never issued by a refill
RefillOpenOffByOne == idx + 1 < total

\* faulty variant: a freed slot is never refilled
RefillNever == FALSE

\* if idx < total: -- a slot freed by a consumed future is refilled
RefillOpen == idx < total

\* the initial batch: one pass of the first while loop
SubmitInitial ==
    /\ pc = "submit"
    /\ InitialBatchOpen
    /\ work' = Submitted
    /\ futures' = Append(futures, Tracked(idx, NextPin))
    /\ issued' = Append(issued, NextPin)
    /\ idx' = idx + 1
    /\ cursor_lock' = found_lock
    /\ UNCHANGED << mode, args, pins, pc, done, pos, new_futures, found,
                    last_shown_pin, consumed, last, printed, exit_status, mock,
                    found_lock, console, success_order >>

\* the initial batch is complete: last_shown_pin = None, enter `while futures`
StartLoop ==
    /\ pc = "submit"
    /\ ~InitialBatchOpen
    /\ pc' = "wait"
    /\ last_shown_pin' = NoneVal
    /\ UNCHANGED << mode, args, pins, idx, futures, done, pos, new_futures, found,
                    work, consumed, last, issued, printed, exit_status, mock,
                    found_lock, console, cursor_lock, success_order >>

\* done, _ = wait(..., return_when=FIRST_COMPLETED, timeout=1.0): the tracked
\* futures that have completed; empty when the second passed with none
Wait ==
    /\ pc = "wait"
    /\ futures # <<>>
    /\ done' = { futures[i].fut : i \in { j \in 1..Len(futures) : Finished(futures[j].fut) } }
    /\ new_futures' = <<>>
    /\ pos' = 1
    /\ pc' = "loop"
    /\ UNCHANGED << mode, args, pins, idx, futures, found, last_shown_pin, work,
                    consumed, last, issued, printed, exit_status, mock,
                    found_lock, console, cursor_lock, success_order >>

\* faulty variant: a future is carried over whether or not it is done
KeepPendingAny ==
    /\ pc = "loop"
    /\ pos <= Len(futures)
    /\ new_futures' = Append(new_futures, futures[pos])
    /\ pos' = pos + 1
    /\ UNCHANGED << mode, args, pins, pc, idx, futures, done, found,
                    last_shown_pin, work, consumed, last, issued, printed, exit_status, mock,
                    found_lock, console, cursor_lock, success_order >>

\* for fut, pin in futures: ... else: new_futures.append((fut, pin))
KeepPending ==
    /\ pc = "loop"
    /\ pos <= Len(futures)
    /\ futures[pos].fut \notin done
    /\ new_futures' = Append(new_futures, futures[pos])
    /\ pos' = pos + 1
    /\ UNCHANGED << mode, args, pins, pc, idx, futures, done, found,
                    last_shown_pin, work, consumed, last, issued, printed, exit_status, mock,
                    found_lock, console, cursor_lock, success_order >>

\* for fut, pin in futures: if fut in done: ... -- one completed future is
\* consumed: fut.result(), the report, the success list, the early stop and
\* the refill of the slot
ProcessDone ==
    /\ pc = "loop"
    /\ pos <= Len(futures)
    /\ futures[pos].fut \in done
    /\ LET fut == futures[pos].fut
           pin == futures[pos].pin
           out == work[fut].outcome
           raised == out.kind = "exception"
           pin_str == IF raised THEN pin ELSE out.val.pin_str
           flag_val == IF raised THEN NoneVal ELSE out.val.flag_val
           errline == IF raised THEN <<"error">> ELSE <<>>
       IN  /\ work' = [f \in (DOMAIN work \ {fut}) \cup
                              (IF ~EarlyStop(flag_val, args.stop_on_found) /\ RefillOpen
                               THEN {idx} ELSE {}) |->
                         IF f \in DOMAIN work THEN work[f] ELSE NewAttempt(NextPin)]
           /\ IF IsFound(flag_val)
              THEN /\ found' = Append(found, <<pin_str, DisplayFlag(flag_val)>>)
                   /\ last' = Consumed(fut, pin, out, errline \o <<"success">>)
                   /\ UNCHANGED last_shown_pin
              ELSE /\ last_shown_pin' = StrVal(pin_str)
                   /\ last' = Consumed(fut, pin, out, errline \o <<"attempted">>)
                   /\ UNCHANGED found
           /\ console' =
                  LET reported == IF raised
                                  THEN Write(console, ErrorReport, Acquired(found_lock))
                                  ELSE console
                      shown == IF IsFound(flag_val)
                               THEN Write(reported, SuccessReport, Acquired(found_lock))
                               ELSE Write(reported, ProgressReport, Acquired(found_lock))
                  IN  IF EarlyStop(flag_val, args.stop_on_found)
                      THEN Write(shown, StopNotice, found_lock)
                      ELSE shown
           /\ IF EarlyStop(flag_val, args.stop_on_found)
              THEN /\ printed' = printed \cup {"stopping"}
                   /\ pc' = "stopping"
                   /\ UNCHANGED << idx, new_futures, pos, issued, cursor_lock >>
              ELSE /\ IF RefillOpen
                      THEN /\ new_futures' = Append(new_futures, Tracked(idx, NextPin))
                           /\ issued' = Append(issued, NextPin)
                           /\ idx' = idx + 1
                           /\ cursor_lock' = found_lock
                      ELSE UNCHANGED << new_futures, issued, idx, cursor_lock >>
                   /\ pos' = pos + 1
                   /\ UNCHANGED << pc, printed >>
    /\ consumed' = IF futures[pos].fut \in DOMAIN consumed
                   THEN [consumed EXCEPT ![futures[pos].fut] = @ + 1]
                   ELSE consumed @@ (futures[pos].fut :> 1)
    /\ success_order' = Without(success_order, futures[pos].fut)
    /\ UNCHANGED << mode, args, pins, futures, done, exit_status, mock, found_lock >>

\* futures = new_futures, at the end of the for loop
EndLoop ==
    /\ pc = "loop"
    /\ pos > Len(futures)
    /\ futures' = new_futures
    /\ pc' = "wait"
    /\ UNCHANGED << mode, args, pins, idx, done, pos, new_futures, found,
                    last_shown_pin, work, consumed, last, issued, printed, exit_status, mock,
                    found_lock, console, cursor_lock, success_order >>

\* `while futures` ends: the summary is printed, the pool is shut down (no
\* attempt is left) and main returns
Finish ==
    /\ pc = "wait"
    /\ futures = <<>>
    /\ printed' = printed \cup {"finished"}
    /\ console' = Write(Write(console, SummaryBreak, Acquired(found_lock)),
                        Summary(Len(found)), found_lock)
    /\ pc' = "done"
    /\ exit_status' = 0
    /\ UNCHANGED << mode, args, pins, idx, futures, done, pos, new_futures, found,
                    last_shown_pin, work, consumed, last, issued, mock,
                    found_lock, cursor_lock, success_order >>

\* the `return` of --stop-on-found leaves the `with ThreadPoolExecutor` block:
\* its exit joins the pool threads, then main returns
StopReturn ==
    /\ pc = "stopping"
    /\ AllWorkersIdle
    /\ pc' = "stopped"
    /\ exit_status' = 0
    /\ UNCHANGED << mode, args, pins, idx, futures, done, pos, new_futures, found,
                    last_shown_pin, work, consumed, last, issued, printed, mock,
                    found_lock, console, cursor_lock, success_order >>

\* Ctrl-C: KeyboardInterrupt is raised in the main thread, inside the
\* `with ThreadPoolExecutor` block
Interrupt ==
    /\ pc \in {"submit", "wait", "loop"}
    /\ pc' = "interrupted"
    /\ UNCHANGED << mode, args, pins, idx, futures, done, pos, new_futures, found,
                    last_shown_pin, work, consumed, last, issued, printed, exit_status, mock,
                    found_lock, console, cursor_lock, success_order >>

\* the exception leaves the `with` block, whose exit joins the pool threads
\* (shutdown(wait=True)); then `except KeyboardInterrupt` prints and exits
ExitInterrupted ==
    /\ pc = "interrupted"
    /\ AllWorkersIdle
    /\ printed' = printed \cup {"interrupted"}
    /\ console' = Write(console, InterruptNotice, found_lock)
    /\ exit_status' = 1
    /\ pc' = "exited"
    /\ UNCHANGED << mode, args, pins, idx, futures, done, pos, new_futures, found,
                    last_shown_pin, work, consumed, last, issued, mock,
                    found_lock, cursor_lock, success_order >>

\* ------------------------------------------------------------ specifications
Configs ==
    [ threads : 1..MaxThreads, retries : 0..MaxRunRetries, stop_on_found : BOOLEAN ]

\* main() after the banner, entering the `with ThreadPoolExecutor` block
RunInit ==
    /\ mode = "run"
    /\ args \in Configs
    /\ pins \in { MakePins(n) : n \in 1..MaxPins }
    /\ pc = "submit"
    /\ idx = 0
    /\ futures = <<>>
    /\ done = {}
    /\ pos = 1
    /\ new_futures = <<>>
    /\ found = <<>>
    /\ last_shown_pin = NoneVal
    /\ work = <<>>
    /\ consumed = <<>>
    /\ last = NoLast
    /\ issued = <<>>
    /\ printed = {}
    /\ exit_status = "none"
    /\ mock = NoMock
    /\ found_lock = "free"
    /\ console = EmptyConsole
    /\ cursor_lock = "none"
    /\ success_order = <<>>

\* one worker() call on its own, against every reply of UnitReplies
UnitInit ==
    /\ mode = "unit"
    /\ args \in [ threads : {1}, retries : 0..MaxRetries, stop_on_found : {FALSE} ]
    /\ pins = MakePins(1)
    /\ pc = "unit"
    /\ idx = 1
    /\ futures = <<>>
    /\ done = {}
    /\ pos = 1
    /\ new_futures = <<>>
    /\ found = <<>>
    /\ last_shown_pin = NoneVal
    /\ work = (0 :> NewAttempt(pins[1]))
    /\ consumed = <<>>
    /\ last = NoLast
    /\ issued = <<pins[1]>>
    /\ printed = {}
    /\ exit_status = "none"
    /\ mock = NoMock
    /\ found_lock = "free"
    /\ console = EmptyConsole
    /\ cursor_lock = "none"
    /\ success_order = <<>>

\* a run of main(), or the unit harness around one worker() call
Init == RunInit \/ UnitInit

Next ==
    \/ SubmitInitial
    \/ StartLoop
    \/ Wait
    \/ KeepPending
    \/ ProcessDone
    \/ EndLoop
    \/ Finish
    \/ StopReturn
    \/ Interrupt
    \/ ExitInterrupted
    \/ \E f \in DOMAIN work : WorkerSend(f)
    \/ \E f \in DOMAIN work : WorkerGiveUp(f)

Spec == Init /\ [][Next]_vars

\* the steps of the main thread when no Ctrl-C arrives
MainStep ==
    \/ SubmitInitial
    \/ StartLoop
    \/ Wait
    \/ KeepPending
    \/ ProcessDone
    \/ EndLoop
    \/ Finish
    \/ StopReturn

\* the steps of the pool threads
PoolStep ==
    \/ \E f \in DOMAIN work : WorkerSend(f)
    \/ \E f \in DOMAIN work : WorkerGiveUp(f)

UninterruptedNext == MainStep \/ PoolStep

\* a run without Ctrl-C where every send returns: the main thread keeps
\* running (its wait() gives up after a second) and so do the pool threads
LiveSpec ==
    RunInit /\ [][UninterruptedNext]_vars /\ WF_vars(MainStep) /\ WF_vars(PoolStep)

\* ------------------------------------------------------------------ claims
Min(a, b) == IF a < b THEN a ELSE b

\* the attempts in flight: issued to the pool and not yet consumed by the scheduler
InFlight == DOMAIN work

\* the number of futures whose result the scheduler has taken
NumConsumed == Cardinality(DOMAIN consumed)

Stopped == pc \in {"stopping", "stopped"}

IsSuccessOutcome(out) == out.kind = "result" /\ Truthy(out.val.flag_val)

\* the payload as text
PayloadText(v) == IF v.t = "str" THEN v.s ELSE PyStr(v)

\* C1: in every reachable state of a run the number of attempts in flight
\* (issued to the pool and not yet consumed by the scheduler) is at most
\* `threads`, and these are exactly the futures the scheduler still tracks.
C1_InFlightAtMostThreads ==
    mode = "run" =>
        /\ Cardinality(InFlight) <= args.threads
        /\ (pc \in {"submit", "wait", "loop"} => InFlight = Pending)
        /\ InFlight = (0..(idx - 1)) \ DOMAIN consumed

\* C1 witness: with more candidates than threads, after a refill, all the
\* slots are taken and one attempt has completed out of order
C1_Witness ==
    /\ mode = "run" /\ pc = "loop"
    /\ args.threads = MaxThreads /\ total > args.threads
    /\ idx > args.threads
    /\ Cardinality(InFlight) = args.threads
    /\ \E f, g \in InFlight : f < g /\ Running(f) /\ Finished(g)

\* C2: a run that ends without early stop and without interruption has
\* issued every candidate of the source exactly once, and no attempt is left
\* in flight.
C2_AllIssuedOnceAtEnd ==
    pc = "done" =>
        /\ \A i \in 1..total :
             Cardinality({ j \in 1..Len(issued) : issued[j] = pins[i] }) = 1
        /\ Len(issued) = total
        /\ InFlight = {}
        /\ futures = <<>>

\* C2 witness: a finished run over more candidates than threads
C2_Witness ==
    /\ pc = "done" /\ total = MaxPins /\ args.threads < total
    /\ ~args.stop_on_found /\ Len(found) >= 1

C4_Original ==
    (Stopped /\ last.fut < total - args.threads) => idx < total

\* C4 amended: a --stop-on-found run stops with a candidate never issued
\* exactly when fewer than N - threads other attempts had been consumed
\* before the success was.
C4_StopLeavesUnissued ==
    Stopped => ((idx < total) <=> (NumConsumed - 1 < total - args.threads))

\* C4 witness: an early candidate succeeds late, after all were issued
C4_Witness ==
    /\ Stopped /\ last.fut = 0 /\ idx = total /\ total > args.threads

\* C4 witness of the other case: the run stopped with candidates unissued
C4_WitnessUnissued ==
    /\ Stopped /\ idx < total /\ NumConsumed > 1

\* C5 as claimed: in the scheduler loop, while unissued candidates remain
\* and no stop was requested, in flight = min(threads, unissued candidates).
C5_Original ==
    (pc \in {"wait", "loop"} /\ idx < total)
        => Cardinality(InFlight) = Min(args.threads, total - idx)

\* C5 amended: once the initial batch is submitted, while unissued candidates
\* remain and no stop was requested, in flight = min(threads, candidates not
\* yet consumed), the unissued and the in-flight ones together.
C5_InFlightIsMin ==
    (pc \in {"wait", "loop"} /\ idx < total)
        => Cardinality(InFlight) = Min(args.threads, total - NumConsumed)

\* C5 witness: one candidate is left to issue and `threads` > 1 are in flight
C5_Witness ==
    /\ pc \in {"wait", "loop"} /\ total - idx = 1
    /\ args.threads = MaxThreads /\ Cardinality(InFlight) = args.threads

RECURSIVE Pow2(_)
Pow2(n) == IF n = 0 THEN 1 ELSE 2 * Pow2(n - 1)

\* the delays 0.5 * 2^i seconds for i = 0..k-1, in ms
Backoffs(k) == [i \in 1..k |-> InitialBackoffMs * Pow2(i - 1)]

\* the unit harness: the call under test and what the endpoint answered last
UnitDone == mode = "unit" /\ Finished(0)
UnitRunning == mode = "unit" /\ Running(0)
LastReplyTerminal == mock.reply.kind = "http" /\ ~RetryableReply(mock.reply)
AllRepliesRetryable == mock.sends = mock.transients

\* the body make_request hands to worker() for a terminal reply
ReplyBody(reply) == IF reply.fmt = "json" THEN reply.val ELSE StrVal(reply.text)

IsNoResult(out) ==
    out.kind = "result" /\ out.val.status = NoneVal /\ out.val.body = NoneVal

\* C6: when the first k sends for a candidate get retryable replies (timeout,
\* connection failure, 429, status in [500,600)) and send k+1 gets any other
\* status, k <= retries, make_request has sent exactly k+1 times, slept
\* exactly k times with the delays 0.5*2^i (i = 0..k-1) and returned that
\* response; after k retryable replies with k <= retries the call goes on to
\* send k+1; and every attempt of a run starts from 0.5 on its own.
C6_RetriesThenTerminal ==
    /\ (UnitDone /\ LastReplyTerminal) =>
          LET k == mock.transients
              out == work[0].outcome
          IN  /\ k <= args.retries
              /\ mock.sends = k + 1
              /\ mock.slept = Backoffs(k)
              /\ (k = 2 => mock.slept = <<500, 1000>>)
              /\ out.kind = "result"
              /\ out.val.status = IntVal(mock.reply.status)
              /\ out.val.body = ReplyBody(mock.reply)
    /\ UnitRunning =>
          /\ AllRepliesRetryable
          /\ mock.slept = Backoffs(mock.transients)
          /\ (mock.transients <= args.retries
                => MayRetry(work[0].attempt, args.retries))
    /\ mode = "run" =>
          \A f \in DOMAIN work :
              Running(f) => work[f].backoff = InitialBackoffMs * Pow2(work[f].attempt)

\* C6 witness: two retryable replies, then a 200 with a non-matching body
C6_Witness ==
    /\ UnitDone /\ LastReplyTerminal
    /\ mock.transients = 2 /\ mock.sends = 3 /\ mock.slept = <<500, 1000>>
    /\ mock.reply.status = 200
    /\ work[0].outcome.val.flag_val = NoneVal

\* C7: against an endpoint that only gives retryable replies, make_request
\* with retries = R sends exactly R+1 times (once, without retry, for R = 0)
\* and returns (None, None); the scheduler takes that attempt as a failure:
\* it prints the progress line only, records no success and does not stop.
C7_ExhaustedIsFailure ==
    /\ (mode = "unit" /\ AllRepliesRetryable) =>
          /\ mock.sends <= args.retries + 1
          /\ (Running(0) => (MayRetry(work[0].attempt, args.retries)
                               <=> mock.sends <= args.retries))
          /\ (Finished(0) =>
                /\ mock.sends = args.retries + 1
                /\ IsNoResult(work[0].outcome)
                /\ work[0].outcome.val.flag_val = NoneVal)
    /\ (mode = "run" /\ IsNoResult(last.got)) =>
          /\ last.lines = <<"attempted">>
          /\ last_shown_pin = StrVal(last.pin)
          /\ \A i \in 1..Len(found) : found[i][1] # last.pin
          /\ ~Stopped

\* C7 witness (run): the scheduler has consumed an exhausted attempt, with
\* --stop-on-found set, and goes on
C7_Witness ==
    /\ mode = "run" /\ IsNoResult(last.got) /\ pc = "loop"
    /\ args.stop_on_found /\ args.retries = MaxRunRetries
    /\ idx > last.fut + 1

\* C8 as claimed: an attempt whose body is a mapping holding the success key
\* is a success with the value at that key as payload, and the scheduler
\* records it in the success list, whatever that value is.
C8_Original ==
    (mode = "run" /\ last.got.kind = "result"
       /\ last.got.val.body.t = "dict" /\ FlagKey \in DOMAIN last.got.val.body.d)
    => /\ last.got.val.flag_val = last.got.val.body.d[FlagKey]
       /\ \E i \in 1..Len(found) : found[i][1] = last.pin

\* the free-text rule as claimed: 'flag' in any case, the literal 'ctf{',
\* or both braces
TextRuleAsClaimed(s) ==
    /\ s # <<>>
    /\ \/ Contains(Lower(s), <<"f", "l", "a", "g">>)
       \/ Contains(s, <<"c", "t", "f", "{">>)
       \/ (Contains(s, <<"{">>) /\ Contains(s, <<"}">>))

\* the free-text rule with 'ctf{' matched in any case too
TextRuleAnyCase(s) ==
    /\ s # <<>>
    /\ \/ Contains(Lower(s), <<"f", "l", "a", "g">>)
       \/ Contains(Lower(s), <<"c", "t", "f", "{">>)
       \/ (Contains(s, <<"{">>) /\ Contains(s, <<"}">>))

\* the classification of a body, textOk telling whether a text body passes
\* the free-text rule
ClassifiedBy(textOk, val) ==
    IF val.body.t = "str"
    THEN IF textOk
         THEN val.flag_val = StrVal(Strip(val.body.s))
         ELSE val.flag_val = NoneVal
    ELSE (val.body.t = "dict" /\ FlagKey \in DOMAIN val.body.d)
         \/ val.flag_val = NoneVal

\* C9 as claimed: a free-text body is a success (payload: the trimmed text)
\* iff it is non-empty and holds 'flag' in any case, or the literal 'ctf{',
\* or both a '{' and a '}'; every other body without the success key fails.
C9_Original ==
    (UnitDone /\ work[0].outcome.kind = "result")
        => ClassifiedBy(work[0].outcome.val.body.t = "str"
                          /\ TextRuleAsClaimed(work[0].outcome.val.body.s),
                        work[0].outcome.val)

\* C9 amended: as claimed, with 'ctf{' matched case-insensitively as 'flag' is.
C9_TextRule ==
    (UnitDone /\ work[0].outcome.kind = "result")
        => ClassifiedBy(work[0].outcome.val.body.t = "str"
                          /\ TextRuleAnyCase(work[0].outcome.val.body.s),
                        work[0].outcome.val)

\* C9 witness: a success by braces alone, the payload trimmed
C9_Witness ==
    /\ UnitDone /\ work[0].outcome.kind = "result"
    /\ work[0].outcome.val.body = StrVal(<<" ", "{", "}">>)
    /\ work[0].outcome.val.flag_val = StrVal(<<"{", "}">>)

\* C10 as claimed: once the interruption has arrived, the exit step is
\* enabled however many workers are still running or retrying.
C10_Original == pc = "interrupted" => ENABLED ExitInterrupted

\* the scheduler takes the result of the completed future at pos
Consuming == mode = "run" /\ consumed' # consumed

\* the future the scheduler is about to look at ended with an exception
AtException ==
    /\ pc = "loop"
    /\ pos <= Len(futures)
    /\ futures[pos].fut \in done
    /\ work[futures[pos].fut].outcome.kind = "exception"

\* the pins of the entries of the success list
FoundPins == { found[i][1] : i \in 1..Len(found) }

\* C11: an attempt that ended with an unclassified exception is reported by an
\* error line naming its own candidate, is a Failure (no entry is added to the
\* success list), its slot is refilled with the next unissued candidate when
\* one remains, and the scheduler stays in its loop: the run is not ended.
C11_ExceptionIsFailure ==
    /\ [](mode = "run" /\ last.got.kind = "exception" =>
            /\ last.lines = <<"error", "attempted">>
            /\ last.pin = pins[last.fut + 1]
            /\ last.pin \notin FoundPins
            /\ "error" \notin console.clobbered
            /\ ~Stopped)
    /\ [][AtException /\ Consuming =>
            /\ found' = found
            /\ pc' = "loop"
            /\ exit_status' = exit_status
            /\ IF idx < total
               THEN /\ idx' = idx + 1
                    /\ new_futures' = Append(new_futures, Tracked(idx, pins[idx + 1]))
                    /\ work'[idx] = NewAttempt(pins[idx + 1])
               ELSE /\ idx' = idx
                    /\ new_futures' = new_futures]_vars

C11_Witness ==
    /\ mode = "run"
    /\ pc = "loop"
    /\ last.got.kind = "exception"
    /\ last.fut = 0
    /\ idx = 3
    /\ args.threads = 2
    /\ Running(2)

\* C13: in every state, stopped early or not, the candidates issued so far
\* are the first idx candidates of the source sequence, in source order, and
\* none was issued twice.
C13_IssuedIsPrefix ==
    /\ idx = Len(issued)
    /\ idx <= total
    /\ issued = SubSeq(pins, 1, idx)
    /\ \A i, j \in 1..Len(issued) : issued[i] = issued[j] => i = j

C13_Witness ==
    /\ pc = "stopped"
    /\ total = 3
    /\ issued = SubSeq(pins, 1, 2)
    /\ NumConsumed = 2

\* C14: each completed attempt the scheduler processes without stopping while
\* candidates remain makes it issue exactly one attempt, for the next candidate
\* in source order; so with at least `threads` candidates, every wait starts
\* with `threads` tracked attempts as long as candidates remain.
C14_OneRefillPerCompletion ==
    /\ [][Consuming /\ pc' # "stopping" /\ idx < total =>
            /\ idx' = idx + 1
            /\ issued' = Append(issued, pins[idx + 1])
            /\ DOMAIN work' = (DOMAIN work \ {futures[pos].fut}) \cup {idx}
            /\ work'[idx] = NewAttempt(pins[idx + 1])
            /\ new_futures' = Append(new_futures, Tracked(idx, pins[idx + 1]))]_vars
    /\ [](mode = "run" /\ pc = "wait" /\ idx < total /\ total >= args.threads =>
            Len(futures) = args.threads)

C14_Witness ==
    /\ mode = "run"
    /\ pc = "wait"
    /\ idx < total
    /\ NumConsumed >= 1
    /\ Len(futures) = args.threads

\* C16: no permanent line (success report, error line, early-stop notice,
\* final summary, interruption notice) is written onto a line that holds an
\* ephemeral "Attempted" text: each is preceded by a line break.
C16_PermanentAfterBreak ==
    /\ console.clobbered = {}
    /\ console.line \in {"empty", "ephemeral"}
    /\ (console.line = "ephemeral" => pc \in {"wait", "loop", "interrupted"})

C16_Witness ==
    /\ pc = "done"
    /\ last_shown_pin # NoneVal
    /\ found # <<>>
    /\ last.lines = <<"error", "attempted">>
    /\ console.clobbered = {}

\* C17: every text written to the console (progress line, success report,
\* error line, early-stop notice, final summary) is written with found_lock held.
C17_Original == console.unlocked = {}

\* a step of a pool thread: an attempt's record changes in place (the
\* scheduler only adds records, at a submit, and removes the one it consumes)
WorkerStep == DOMAIN work' = DOMAIN work /\ work' # work

\* C18 as stated: the cursor is advanced only with the lock held.
C18_Original == cursor_lock \notin {"free"}

\* C18: the cursor, the tracked futures and the success list are changed by
\* the scheduler (the main thread) alone, never by a pool thread; the cursor
\* is advanced with found_lock not held, one candidate at a time, and one
\* completion is processed per step.
C18_SchedulerConfined ==
    /\ [](cursor_lock \in {"none", "free"} /\ found_lock = "free")
    /\ [][WorkerStep =>
            UNCHANGED << idx, futures, new_futures, done, pos, found, consumed,
                         issued, last_shown_pin >>]_vars
    /\ [][idx' \in {idx, idx + 1} /\ NumConsumed' \in {NumConsumed, NumConsumed + 1}]_vars

C18_Witness ==
    /\ mode = "run"
    /\ cursor_lock = "free"
    /\ NumConsumed = 2
    /\ idx = 3
    /\ \E f \in DOMAIN work : Finished(f)

\* the place of future f in a sequence of futures (0: not in it)
PlaceIn(seq, f) ==
    IF \E i \in 1..Len(seq) : seq[i] = f
    THEN CHOOSE i \in 1..Len(seq) : seq[i] = f
    ELSE 0

\* the place of future f in the tracked list (0: not in it)
PlaceTracked(f) ==
    IF \E i \in 1..Len(futures) : futures[i].fut = f
    THEN CHOOSE i \in 1..Len(futures) : futures[i].fut = f
    ELSE 0

\* C12 as stated: the successes are recorded in the order in which their
\* attempts completed: each success recorded is the one that completed first
\* among those not recorded yet.
C12_Original ==
    [][Consuming /\ found' # found => futures[pos].fut = Head(success_order)]_vars

\* C12: the success list is in the order in which the scheduler consumed the
\* attempts: entries are only appended, one per consumed success; a success
\* is recorded ahead of one that completed before it only when both were
\* returned by the same wait and it stands earlier in the tracked list, which
\* the for loop walks front to back.
C12_ConsumptionOrder ==
    /\ [][found' # found =>
            /\ Consuming
            /\ Len(found') = Len(found) + 1
            /\ SubSeq(found', 1, Len(found)) = found
            /\ found'[Len(found')][1] = futures[pos].pin]_vars
    /\ [][Consuming /\ found' # found =>
            \A a \in DOMAIN work :
                (PlaceIn(success_order, a) # 0
                 /\ PlaceIn(success_order, a) < PlaceIn(success_order, futures[pos].fut))
                => (a \in done /\ PlaceTracked(a) > pos)]_vars
    /\ [](mode = "run" /\ pc = "loop" =>
            \A i \in 1..(pos - 1) :
                futures[i].fut \in done => futures[i].fut \in DOMAIN consumed)

\* C12 witness: two successes returned by one wait, the one that completed
\* first standing later in the tracked list
C12_Witness ==
    /\ mode = "run"
    /\ pc = "loop"
    /\ pos = 1
    /\ Len(success_order) = 2
    /\ futures[1].fut = success_order[2]
    /\ { success_order[1], success_order[2] } \subseteq done
    /\ ~args.stop_on_found

\* the last entry of the success list belongs to the attempt consumed last
LastIsRecorded ==
    mode = "run" /\ last.lines = <<"success">> /\ found # <<>>

\* C19 as stated: the entry of the success list carries the full payload,
\* whatever its length.
C19_Original ==
    LastIsRecorded =>
        found[Len(found)][2] = PayloadText(last.got.val.flag_val)

\* C19: the entry recorded for a success carries the displayed form of the
\* payload: the payload itself when it has at most 300 characters, and its
\* first 300 characters followed by " ... (truncated)" when it is longer.
C19_RecordsDisplayed ==
    LastIsRecorded =>
        LET full == PayloadText(last.got.val.flag_val)
            kept == found[Len(found)][2]
        IN  /\ found[Len(found)][1] = last.pin
            /\ IF Len(full) <= MaxDisplayLen
               THEN kept = full
               ELSE /\ Len(kept) = MaxDisplayLen + Len(TruncatedMarker)
                    /\ SubSeq(kept, 1, MaxDisplayLen) = SubSeq(full, 1, MaxDisplayLen)
                    /\ SubSeq(kept, MaxDisplayLen + 1, Len(kept)) = TruncatedMarker
                    /\ kept # full

C19_Witness ==
    /\ LastIsRecorded
    /\ Len(PayloadText(last.got.val.flag_val)) = MaxDisplayLen + 1
    /\ Len(found[Len(found)][2]) = MaxDisplayLen + 16
    /\ pc = "done"

\* C20: in a run without --stop-on-found and without interruption every
\* completed attempt is consumed exactly once, each consumed attempt that
\* returned a flag adds exactly one entry for its candidate, every other one
\* adds none, and at the end the entries are for pairwise distinct candidates.
C20_Original ==
    /\ [](mode = "run" /\ pc = "done" /\ ~args.stop_on_found =>
            /\ \A f \in 0..(total - 1) : f \in DOMAIN consumed /\ consumed[f] = 1
            /\ \A i, j \in 1..Len(found) : found[i][1] = found[j][1] => i = j)
    /\ [][Consuming /\ ~args.stop_on_found =>
            LET out == work[futures[pos].fut].outcome
            IN  IF out.kind = "result" /\ out.val.flag_val # NoneVal
                THEN /\ Len(found') = Len(found) + 1
                     /\ SubSeq(found', 1, Len(found)) = found
                     /\ found'[Len(found')][1] = futures[pos].pin
                ELSE found' = found]_vars

\* the run is over: main() has returned
Terminated == pc \in {"done", "stopped"}

\* C15: when every send returns and no Ctrl-C arrives, the run ends: an
\* attempt makes at most retries + 1 sends, and main() returns once all
\* candidates are issued and no attempt is left, or after an early stop.
C15_Terminates ==
    /\ <>Terminated
    /\ [](\A f \in DOMAIN work : Running(f) => work[f].attempt <= args.retries + 1)
    /\ [](pc = "done" => idx = total /\ work = <<>> /\ futures = <<>>)
    /\ [](pc = "stopped" => args.stop_on_found /\ found # <<>> /\ AllWorkersIdle)
    /\ [][Terminated => Terminated']_vars

C15_Witness ==
    /\ pc = "done"
    /\ total = MaxPins
    /\ args.retries = MaxRunRetries
    /\ args.threads = MaxThreads
    /\ last.got.kind = "result"
    /\ last.got.val.status = NoneVal

====
